---- MODULE Spec2Model ----
(***************************************************************************)
(* Floor-plan analysis and furniture recommendation of furniture_ai_suite  *)
(* (floor_plan_analyzer.py) and the /analyze-floor-plan handler (app.py).  *)
(*                                                                         *)
(* OpenCV is a library: an image is represented by what the library        *)
(* returns for it, namely the contour sequence of cv2.findContours (each   *)
(* contour by its cv2.contourArea, in half pixels, and its bounding        *)
(* rectangle), the segments of cv2.HoughLinesP (by squared length) and the *)
(* number of wall contours.  Centroids and box origins are library values  *)
(* that no operation below branches on; they are left out.                 *)
(***************************************************************************)
EXTENDS Integers, Sequences, FiniteSets, TLC

VARIABLES pc, op, args, ret, http, tmpfiles, outfiles, est, rec, prevRec, seg, opn, calls, disk, scr, rl, batch, prd, inf, trn

vars == <<pc, op, args, ret, http, tmpfiles, outfiles, est, rec, prevRec, seg, opn, calls, disk, scr, rl, batch, prd, inf, trn>>

(***************************************************************************)
(* Bounds of the model.                                                    *)
(***************************************************************************)
MaxContours == 2
MaxLines == 1
MaxTmp == 2
Spread == 1
MaxSideUnits == 7

(***************************************************************************)
(* Program constants.                                                      *)
(***************************************************************************)
DefaultMinRoomArea == 5000
TestMinRoomArea == 1000
LargeRoomArea == 100000
MediumRoomArea == 50000
SmallRoomArea == 20000
SmallTierArea == 30000
MediumTierArea == 60000

Max(a, b) == IF a >= b THEN a ELSE b
Min(a, b) == IF a <= b THEN a ELSE b

(* _estimate_room_type with >= for > on the area limits *)
estimate_room_type_inclusive(area2, num, den) ==
    IF area2 >= 2 * LargeRoomArea
    THEN IF num > 2 * den THEN "living_room" ELSE "master_bedroom"
    ELSE IF area2 >= 2 * MediumRoomArea
    THEN IF 2 * num > 3 * den THEN "dining_room" ELSE "bedroom"
    ELSE IF area2 >= 2 * SmallRoomArea
    THEN IF 5 * num < 6 * den THEN "bathroom" ELSE "kitchen"
    ELSE "storage_or_hallway"

(***************************************************************************)
(* _estimate_room_type(area, aspect_ratio).  area is a float that is a     *)
(* multiple of 0.5 (cv2.contourArea), held as area2 = 2 * area; the ratio  *)
(* is max(w, h) / min(w, h), held as the fraction num / den, so that       *)
(* ratio > 2.0 is num > 2 * den, ratio > 1.5 is 2 * num > 3 * den and      *)
(* ratio < 1.2 is 5 * num < 6 * den.                                       *)
(***************************************************************************)
_estimate_room_type(area2, num, den) ==
    IF area2 > 2 * LargeRoomArea
    THEN IF num > 2 * den THEN "living_room" ELSE "master_bedroom"
    ELSE IF area2 > 2 * MediumRoomArea
    THEN IF 2 * num > 3 * den THEN "dining_room" ELSE "bedroom"
    ELSE IF area2 > 2 * SmallRoomArea
    THEN IF 5 * num < 6 * den THEN "bathroom" ELSE "kitchen"
    ELSE "storage_or_hallway"

(***************************************************************************)
(* The static catalog of recommend_furniture and its fallback entry.       *)
(***************************************************************************)
Item(i, p) == [item |-> i, priority |-> p]

recommendations ==
    [bedroom |-> << Item("bed", "essential"), Item("nightstand", "recommended"),
                    Item("wardrobe", "essential"), Item("dresser", "optional"),
                    Item("chair", "optional") >>,
     master_bedroom |-> << Item("king_bed", "essential"),
                    Item("nightstands_pair", "essential"),
                    Item("wardrobe", "essential"), Item("dresser", "recommended"),
                    Item("seating_area", "optional") >>,
     living_room |-> << Item("sofa", "essential"), Item("coffee_table", "essential"),
                    Item("tv_stand", "recommended"), Item("armchair", "optional"),
                    Item("bookshelf", "optional") >>,
     dining_room |-> << Item("dining_table", "essential"),
                    Item("dining_chairs", "essential"), Item("buffet", "optional"),
                    Item("china_cabinet", "optional") >>,
     kitchen |-> << Item("dining_table_small", "recommended"),
                    Item("bar_stools", "optional"),
                    Item("kitchen_island", "optional") >>,
     bathroom |-> << Item("vanity", "essential"),
                    Item("storage_cabinet", "recommended"),
                    Item("towel_rack", "essential") >>]

fallback_recommendations == << Item("general_storage", "recommended") >>

(* the lookup with an empty default in place of the fallback entry *)
base_recommendations_empty_default(room_type) ==
    IF room_type \in DOMAIN recommendations
    THEN recommendations[room_type]
    ELSE << >>

base_recommendations(room_type) ==
    IF room_type \in DOMAIN recommendations
    THEN recommendations[room_type]
    ELSE fallback_recommendations

IsEssential(r) == r.priority = "essential"
(* the medium tier keeping the recommended items alone *)
IsRecommendedOnly(r) == r.priority = "recommended"
IsEssentialOrRecommended(r) == r.priority \in {"essential", "recommended"}

(* recommend_furniture with <= for < on the tier limits *)
recommend_furniture_inclusive(room_type, area) ==
    IF area <= SmallTierArea
    THEN SelectSeq(base_recommendations(room_type), IsEssential)
    ELSE IF area <= MediumTierArea
    THEN SelectSeq(base_recommendations(room_type), IsEssentialOrRecommended)
    ELSE base_recommendations(room_type)

(***************************************************************************)
(* recommend_furniture(room): reads room["type"] and room["area_pixels"].  *)
(***************************************************************************)
recommend_furniture(room_type, area) ==
    IF area < SmallTierArea
    THEN SelectSeq(base_recommendations(room_type), IsEssential)
    ELSE IF area < MediumTierArea
    THEN SelectSeq(base_recommendations(room_type), IsEssentialOrRecommended)
    ELSE base_recommendations(room_type)

(***************************************************************************)
(* Inputs.  A contour is what cv2.findContours returns for one region:     *)
(* area2 = 2 * cv2.contourArea (a multiple of half a pixel) and w, h of    *)
(* cv2.boundingRect (both >= 1).  The areas lie half a pixel below the     *)
(* default threshold, at it, and in the large tier.                        *)
(***************************************************************************)
MinRoomAreas == {TestMinRoomArea, DefaultMinRoomArea}

Contours ==
    { [area2 |-> 2 * DefaultMinRoomArea - 1, w |-> 90, h |-> 70],
      [area2 |-> 2 * DefaultMinRoomArea, w |-> 90, h |-> 70],
      [area2 |-> 2 * MediumTierArea + 10001, w |-> 400, h |-> 200] }

SeqsUpTo(S, n) == UNION { [1..k -> S] : k \in 0..n }

ContourSeqs == SeqsUpTo(Contours, MaxContours)

(* squared lengths of the segments of cv2.HoughLinesP: 50, 60 and 100 px *)
LineLengths2 == {2500, 3600, 10000}

(***************************************************************************)
(* An all-white image of w x h pixels.  preprocess: every pixel equals its *)
(* neighbourhood mean, so none is below mean - 2 and THRESH_BINARY_INV     *)
(* gives an all-zero mask.  detect_rooms inverts the mask to all 255, and  *)
(* cv2.findContours (RETR_EXTERNAL) reports the one white region, whose    *)
(* outline is the image frame: cv2.contourArea (w - 1) * (h - 1),          *)
(* cv2.boundingRect w x h.  The all-zero mask has no wall contour and no   *)
(* Canny edge, hence no segment.                                           *)
(***************************************************************************)
BlankImage(w, h) ==
    [contours |-> << [area2 |-> 2 * (w - 1) * (h - 1), w |-> w, h |-> h] >>,
     lines |-> << >>, walls |-> 0]

(* the sample plan's canvas of demo.py, and a thumbnail *)
BlankSizes == { <<900, 600>>, <<60, 60>> }

BlankImages == { BlankImage(sz[1], sz[2]) : sz \in BlankSizes }

Images ==
    [contours : ContourSeqs, lines : SeqsUpTo(LineLengths2, MaxLines), walls : {1}]
    \cup BlankImages

(* stands for the image of a file that holds none *)
NoImage == [contours |-> << >>, lines |-> << >>, walls |-> 0]

(***************************************************************************)
(* detect_rooms(binary_image): enumerate the contours, skip those with     *)
(* area < min_room_area, describe the others.                              *)
(***************************************************************************)
aspect_ratio_width_to_height(w, h) == [num |-> w, den |-> h]

(* max(w, h) / min(w, h), kept as the fraction num/den *)
aspect_ratio(w, h) == [num |-> Max(w, h), den |-> Min(w, h)]

RoomWithoutIndex(i, contour) ==
    [id |-> 0,
     type |-> _estimate_room_type(contour.area2,
                                  aspect_ratio(contour.w, contour.h).num,
                                  aspect_ratio(contour.w, contour.h).den),
     area_pixels |-> contour.area2 \div 2,
     width |-> contour.w,
     height |-> contour.h,
     aspect_ratio |-> aspect_ratio(contour.w, contour.h),
     contour |-> contour]

Room(i, contour) ==
    [id |-> i,
     type |-> _estimate_room_type(contour.area2,
                                  aspect_ratio(contour.w, contour.h).num,
                                  aspect_ratio(contour.w, contour.h).den),
     area_pixels |-> contour.area2 \div 2,
     width |-> contour.w,
     height |-> contour.h,
     aspect_ratio |-> aspect_ratio(contour.w, contour.h),
     contour |-> contour]

(* the filter on the area of the bounding box in place of the contour area *)
RoomPassesBox(contour, min_room_area) == ~(contour.w * contour.h < min_room_area)
RoomPasses(contour, min_room_area) == ~(contour.area2 < 2 * min_room_area)

RECURSIVE detect_rooms_from(_, _, _)
detect_rooms_from(contours, min_room_area, i) ==
    IF i > Len(contours) THEN << >>
    ELSE (IF RoomPasses(contours[i], min_room_area)
          THEN << Room(i - 1, contours[i]) >> ELSE << >>)
         \o detect_rooms_from(contours, min_room_area, i + 1)

detect_rooms(contours, min_room_area) == detect_rooms_from(contours, min_room_area, 1)

(***************************************************************************)
(* detect_doors_windows(binary_image): keep 30 < length < 100; below 60 a  *)
(* window, else a door.  lines is None when HoughLinesP finds nothing,     *)
(* which is the empty sequence here.                                       *)
(***************************************************************************)
MinOpeningLength == 30
MaxOpeningLength == 100
DoorLength == 60

IsOpeningInclusive(len2) ==
    MinOpeningLength * MinOpeningLength <= len2 /\ len2 <= MaxOpeningLength * MaxOpeningLength

IsWindowUpToDoorLength(len2) ==
    MinOpeningLength * MinOpeningLength < len2 /\ len2 <= DoorLength * DoorLength

IsOpening(len2) ==
    MinOpeningLength * MinOpeningLength < len2 /\ len2 < MaxOpeningLength * MaxOpeningLength
IsWindow(len2) == IsOpening(len2) /\ len2 < DoorLength * DoorLength
IsDoor(len2) == IsOpening(len2) /\ ~(len2 < DoorLength * DoorLength)

detect_doors_windows(lines) ==
    [doors |-> SelectSeq(lines, IsDoor), windows |-> SelectSeq(lines, IsWindow)]

(* the total as int() of the sum of the float areas *)
RECURSIVE SumContourArea2(_)
SumContourArea2(rooms) ==
    IF rooms = << >> THEN 0
    ELSE Head(rooms).contour.area2 + SumContourArea2(Tail(rooms))
SumAreaTruncatedLast(rooms) == SumContourArea2(rooms) \div 2

RECURSIVE SumAreaPixels(_)
SumAreaPixels(rooms) ==
    IF rooms = << >> THEN 0
    ELSE Head(rooms).area_pixels + SumAreaPixels(Tail(rooms))

(***************************************************************************)
(* Result rooms.  The dictionary built by analyze_floor_plan has no        *)
(* furniture_recommendations key; analyze_floor_plan_bytes adds it.        *)
(***************************************************************************)
ResultRoom(r) ==
    [id |-> r.id, type |-> r.type, area_pixels |-> r.area_pixels,
     width |-> r.width, height |-> r.height, aspect_ratio |-> r.aspect_ratio,
     has_recommendations |-> FALSE, furniture_recommendations |-> << >>]

NoResults ==
    [total_rooms |-> 0, total_area_pixels |-> 0, rooms |-> << >>,
     doors |-> << >>, windows |-> << >>, wall_count |-> 0]

(***************************************************************************)
(* Files.  A path names no file, a file cv2.imread cannot read, or an      *)
(* image.  An output path is absent (""), writable, one cv2.imwrite cannot *)
(* open (it returns False), or one with an extension that has no writer    *)
(* (cv2.imwrite raises cv2.error).                                         *)
(***************************************************************************)
MissingFile == [kind |-> "missing", image |-> NoImage]
UnreadableFile == [kind |-> "unreadable", image |-> NoImage]
ImageFile(img) == [kind |-> "image", image |-> img]

Files == {MissingFile, UnreadableFile} \cup { ImageFile(img) : img \in Images }

OutputPaths == {"", "out.jpg", "missing_dir/out.jpg", "out.xyz"}

visualize_analysis_without_saving(output_path) ==
    CASE output_path = "out.xyz" -> "cv2.error"
      [] OTHER -> "not_written"

_visualize_analysis(output_path) ==
    CASE output_path = "out.jpg" -> "written"
      [] output_path = "missing_dir/out.jpg" -> "not_written"
      [] OTHER -> "cv2.error"

Raised(e) == [exc |-> e, results |-> NoResults, wrote |-> FALSE]

(***************************************************************************)
(* FloorPlanAnalyzer.analyze_floor_plan(image_path, output_path).          *)
(***************************************************************************)
analyze_floor_plan(min_room_area, file, output_path) ==
    IF file.kind = "missing" THEN Raised("FileNotFoundError")
    ELSE IF file.kind = "unreadable" THEN Raised("ValueError")
    ELSE
      LET image == file.image
          rooms == detect_rooms(image.contours, min_room_area)
          openings == detect_doors_windows(image.lines)
          total_area == SumAreaPixels(rooms)
          viz == IF output_path # "" THEN _visualize_analysis(output_path) ELSE "none"
      IN IF viz = "cv2.error" THEN Raised("cv2.error")
         ELSE [exc |-> "none",
               results |-> [total_rooms |-> Len(rooms),
                            total_area_pixels |-> total_area,
                            rooms |-> [k \in 1..Len(rooms) |-> ResultRoom(rooms[k])],
                            doors |-> openings.doors,
                            windows |-> openings.windows,
                            wall_count |-> image.walls],
               wrote |-> (viz = "written")]

(***************************************************************************)
(* analyze_floor_plan_bytes(image_bytes, output_path).                     *)
(*   image_bytes: empty, undecodable, or the encoding of an image (given   *)
(*     by the contours of the decoded image, all the first pass reads);    *)
(*   empty_decode: what cv2.imdecode does with an empty buffer, which      *)
(*     depends on the OpenCV build (None, or cv2.error);                   *)
(*   scratch_write: cv2.imwrite(temp_path, image) writes the JPEG, returns *)
(*     False, or raises;                                                   *)
(*   scratch_image: the image cv2.imread decodes from the scratch JPEG     *)
(*     (JPEG is lossy, so it need not give the contours of the original).  *)
(* created / deleted say whether the scratch file was created and whether  *)
(* it was unlinked before the call ended.                                  *)
(***************************************************************************)
EmptyBytes == [kind |-> "empty", contours |-> << >>]
GarbageBytes == [kind |-> "garbage", contours |-> << >>]
EncodedImage(cs) == [kind |-> "image", contours |-> cs]

ImageBytes ==
    {EmptyBytes, GarbageBytes}
      \cup { EncodedImage(cs) : cs \in ContourSeqs }
      \cup { EncodedImage(img.contours) : img \in BlankImages }

MatchingRooms(detected_rooms, id) ==
    SelectSeq(detected_rooms, LAMBDA r : r.id = id)

AttachRecommendations(room, detected_rooms) ==
    LET matching == MatchingRooms(detected_rooms, room.id)
    IN IF matching = << >> THEN room
       ELSE [room EXCEPT !.has_recommendations = TRUE,
                         !.furniture_recommendations =
                             recommend_furniture(matching[1].type, matching[1].area_pixels)]

BytesOutcome(r, created, deleted) ==
    [exc |-> r.exc, results |-> r.results, wrote |-> r.wrote,
     created |-> created, deleted |-> deleted]

ScratchAnalysis(contours, output_path, scratch_file) ==
    LET detected_rooms == detect_rooms(contours, DefaultMinRoomArea)
        r == analyze_floor_plan(DefaultMinRoomArea, scratch_file, output_path)
    IN IF r.exc # "none" THEN BytesOutcome(r, TRUE, TRUE)
       ELSE BytesOutcome(
              [r EXCEPT !.results.rooms =
                   [k \in 1..Len(r.results.rooms) |->
                        AttachRecommendations(r.results.rooms[k], detected_rooms)]],
              TRUE, TRUE)

analyze_floor_plan_bytes(image_bytes, output_path, empty_decode, scratch_write, scratch_image) ==
    IF image_bytes.kind = "empty" /\ empty_decode = "cv2.error"
    THEN BytesOutcome(Raised("cv2.error"), FALSE, FALSE)
    ELSE IF image_bytes.kind # "image"
    THEN BytesOutcome(Raised("ValueError"), FALSE, FALSE)
    ELSE IF scratch_write = "raises"
    THEN BytesOutcome(Raised("cv2.error"), TRUE, FALSE)
    ELSE ScratchAnalysis(image_bytes.contours, output_path,
                         IF scratch_write = "written"
                         THEN ImageFile(scratch_image) ELSE UnreadableFile)

(***************************************************************************)
(* The /analyze-floor-plan handler of app.py.  HTTPException is an         *)
(* Exception and not a ValueError, so one raised inside the try block is   *)
(* caught by the handler's own `except Exception`.                         *)
(***************************************************************************)
Filenames == {"", "plan.txt", "plan.jpg"}

NotCalled == BytesOutcome(Raised("none"), FALSE, FALSE)

Rejected(status) == [status |-> status, called |-> FALSE, analysis |-> NotCalled]

StatusOf(exc) ==
    IF exc = "none" THEN 200
    ELSE IF exc = "ValueError" THEN 400
    ELSE 500

app_analyze_floor_plan(filename, image_bytes, save_visualization, empty_decode, scratch_write, scratch_image) ==
    IF filename = "" THEN Rejected(400)
    ELSE IF filename = "plan.txt" THEN Rejected(400)
    ELSE IF image_bytes.kind = "empty"
    THEN Rejected(StatusOf("HTTPException"))
    ELSE LET output_path == IF save_visualization THEN "out.jpg" ELSE ""
             r == analyze_floor_plan_bytes(image_bytes, output_path,
                                           empty_decode, scratch_write, scratch_image)
         IN [status |-> StatusOf(r.exc), called |-> TRUE, analysis |-> r]


(***************************************************************************)
(* alibaba_scraper.py: AlibabaFurnitureScraper.search_furniture and its    *)
(* file cache.  Times are in hours.  An absent argument (None) is -1.  A   *)
(* cache file is named by the MD5 of the query string, taken here as the   *)
(* query string itself; its content is the JSON text of the result, whose  *)
(* values (strings, numbers, booleans, null, lists and string-keyed        *)
(* objects) are the ones json.load gives back unchanged.  All that         *)
(* _generate_mock_furniture_data draws at random or reads from the clock   *)
(* is one number, draw.                                                    *)
(***************************************************************************)
MaxAgeHours == 24

Truthy(x) == x # -1 /\ x # 0

SearchArgs ==
    [keyword : {"sofa"}, category : {-1}, page : {1}, page_size : {20},
     min_price : {-1, 0, 100}, max_price : {-1}]

(* the query string of search_furniture *)
query(a) ==
    [keyword |-> a.keyword, category |-> a.category, page |-> a.page,
     page_size |-> a.page_size,
     min |-> IF Truthy(a.min_price) THEN a.min_price ELSE -1,
     max |-> IF Truthy(a.max_price) THEN a.max_price ELSE -1]

Queries == { query(a) : a \in SearchArgs }

NoEntry == [exists |-> FALSE]

NoData == [success |-> FALSE]

_generate_mock_furniture_data(a, draw) ==
    [success |-> TRUE, query |-> a.keyword, category |-> a.category, page |-> a.page,
     page_size |-> a.page_size, products |-> a.page_size, draw |-> draw]

load_from_cache_expiring_at_max_age(cache, q, now) ==
    IF ~cache[q].exists THEN NoData
    ELSE IF now - cache[q].mtime >= MaxAgeHours THEN NoData
    ELSE cache[q].data

_load_from_cache(cache, q, now) ==
    IF ~cache[q].exists THEN NoData
    ELSE IF now - cache[q].mtime > MaxAgeHours THEN NoData
    ELSE cache[q].data

(* by is not in the file: it records the arguments of the call that wrote it *)
_save_to_cache(cache, q, data, now, a) ==
    [cache EXCEPT ![q] = [exists |-> TRUE, data |-> data, mtime |-> now, by |-> a]]

search_furniture(cache, now, draw, a, use_cache) ==
    LET q == query(a)
        cached == IF use_cache THEN _load_from_cache(cache, q, now) ELSE NoData
        results == _generate_mock_furniture_data(a, draw)
    IN IF use_cache /\ cached # NoData
       THEN [result |-> cached, cache |-> cache, generated |-> FALSE, waited |-> FALSE]
       ELSE [result |-> results,
             cache |-> IF use_cache THEN _save_to_cache(cache, q, results, now, a)
                       ELSE cache,
             generated |-> TRUE, waited |-> TRUE]

NoSearch ==
    [args |-> CHOOSE a \in SearchArgs : a.min_price = -1, use_cache |-> FALSE, at |-> 0,
     entry |-> NoEntry, result |-> NoData, generated |-> FALSE, waited |-> FALSE]

NoScraper ==
    [now |-> 0, cache |-> [q \in Queries |-> NoEntry], draws |-> 0, call |-> NoSearch]


(***************************************************************************)
(* AlibabaFurnitureScraper._wait_for_rate_limit.  Times are in seconds on  *)
(* a clock that does not run backwards.  delay is the time that passes     *)
(* beyond what the code asks for: between its two readings of the clock    *)
(* and in a sleep that lasts longer than requested.                        *)
(***************************************************************************)
wait_for_rate_limit_stamped_on_entry(now, last_request_time, rate_limit, delay) ==
    LET elapsed == now - last_request_time
        wait_time == IF elapsed < rate_limit THEN rate_limit - elapsed ELSE 0
    IN [now |-> now + wait_time + delay, last_request_time |-> now]

_wait_for_rate_limit(now, last_request_time, rate_limit, delay) ==
    LET elapsed == now - last_request_time
        wait_time == IF elapsed < rate_limit THEN rate_limit - elapsed ELSE 0
    IN [now |-> now + wait_time + delay, last_request_time |-> now + wait_time + delay]

(* a scraper just built, a while after the epoch: last_request_time is 0.0 *)
NewScraper(rate_limit) ==
    [rate_limit |-> rate_limit, now |-> 5, last_request_time |-> 0,
     previous_request_time |-> 0, requests |-> 0, kind |-> "none"]


(***************************************************************************)
(* search_alibaba_furniture(keyword, category, max_results).  A page of    *)
(* search_furniture, generated or cached, holds page_size products; a      *)
(* product is its number base_offset + i + 1.                              *)
(***************************************************************************)
BatchPageSize == 20

BatchPageStop == 6

PageProducts(page) == [i \in 1..BatchPageSize |-> (page - 1) * BatchPageSize + i]

RECURSIVE FetchPages(_, _, _, _)
FetchPages(page, stop, all_products, max_results) ==
    IF page >= stop THEN [all_products |-> all_products, requested |-> page - 1]
    ELSE LET extended == all_products \o PageProducts(page)
         IN IF Len(extended) >= max_results
            THEN [all_products |-> extended, requested |-> page]
            ELSE FetchPages(page + 1, stop, extended, max_results)

search_alibaba_furniture_all_pages(max_results) ==
    LET pages_needed == (max_results + BatchPageSize - 1) \div BatchPageSize
        fetched == FetchPages(1, pages_needed + 1, << >>, max_results)
    IN [success |-> TRUE, total_found |-> Len(fetched.all_products),
        products |-> SubSeq(fetched.all_products, 1,
                            Min(max_results, Len(fetched.all_products))),
        requested |-> fetched.requested]

search_alibaba_furniture(max_results) ==
    LET pages_needed == (max_results + BatchPageSize - 1) \div BatchPageSize
        fetched == FetchPages(1, Min(pages_needed + 1, BatchPageStop), << >>, max_results)
    IN [success |-> TRUE, total_found |-> Len(fetched.all_products),
        products |-> SubSeq(fetched.all_products, 1,
                            Min(max_results, Len(fetched.all_products))),
        requested |-> fetched.requested]

BatchCall(max_results) ==
    [max_results |-> max_results, done |-> FALSE,
     out |-> [success |-> FALSE, total_found |-> 0, products |-> << >>, requested |-> 0]]


(***************************************************************************)
(* infer.predict_bytes and the /predict handler of app.py.  An upload is   *)
(* empty, not an image, an image under 32x32, or a usable image.  The      *)
(* model store has no results file ("untrained"), a results file whose     *)
(* checkpoint is missing ("no_ckpt"), or a loadable best model             *)
(* ("trained").  ranking is the labels by decreasing probability, as the   *)
(* network orders them.  A dict is a record; reading a key it does not     *)
(* have raises KeyError.                                                   *)
(***************************************************************************)
Labels == <<"bedroom", "kitchen", "office">>

BestModel == [model |-> "efficientnet_b0", val_acc |-> 90, ckpt |-> "artifacts/efficientnet_b0_best.pt"]

Rankings ==
    { r \in [1..Len(Labels) -> 1..Len(Labels)] : \A i, j \in 1..Len(Labels) : i # j => r[i] # r[j] }

NoPrediction == [exc |-> "none", predictions |-> << >>, best |-> [model |-> "none"]]

PredictRaised(e) == [NoPrediction EXCEPT !.exc = e]

predict_bytes(image, topk, model, ranking) ==
    IF image = "empty" THEN PredictRaised("ValueError")
    ELSE IF topk < 1 THEN PredictRaised("ValueError")
    ELSE IF model = "untrained" THEN PredictRaised("FileNotFoundError")
    ELSE IF model = "no_ckpt" THEN PredictRaised("Exception")
    ELSE IF image # "ok" THEN PredictRaised("Exception")
    ELSE LET k == Min(topk, Len(Labels))
         IN [exc |-> "none",
             predictions |-> [rank \in 1..k |->
                                  [label |-> Labels[ranking[rank]],
                                   confidence |-> Len(Labels) - rank,
                                   rank |-> rank]],
             best |-> BestModel]

PredictResponse(status, ok, predictions, model) ==
    [status |-> status, ok |-> ok, predictions |-> predictions, model |-> model]

PredictError(status) == PredictResponse(status, FALSE, << >>, "none")

(* the key of a prediction that the handler's log line reads *)
LoggedKeys == {"label", "prob"}

app_predict(filename, image, topk, model, ranking) ==
    IF filename = "" THEN PredictError(400)
    ELSE IF filename = "plan.txt" THEN PredictError(400)
    ELSE IF image = "empty" THEN PredictError(StatusOf("HTTPException"))
    ELSE LET p == predict_bytes(image, topk, model, ranking)
         IN IF p.exc # "none" THEN PredictError(500)
            ELSE IF ~(LoggedKeys \subseteq DOMAIN p.predictions[1]) THEN PredictError(500)
            ELSE PredictResponse(200, TRUE, p.predictions, p.best.model)

PredictCall(filename, image, topk, model, ranking) ==
    [filename |-> filename, image |-> image, topk |-> topk, model |-> model,
     ranking |-> ranking, done |-> FALSE, response |-> PredictError(0)]


(***************************************************************************)
(* Training results and the model loader.  train_all trains the backbones  *)
(* in order, sorts the results by accuracy and writes them to              *)
(* artifacts/finetune_results.json; load_best reads the first entry of     *)
(* that file and the checkpoint it names, and keeps what it loaded in      *)
(* module globals.  Accuracies are levels 0, 1, 2; a run is named by its   *)
(* number, and a checkpoint by the run that saved it (0: no file).         *)
(***************************************************************************)
MaxRuns == 2

Backbones == <<"efficientnet_b0", "convnext_tiny", "swin_tiny_patch4_window7_224">>

ValAccs == {0, 1, 2}

NoResultsFile == [model |-> "", val_acc |-> 0, ckpt |-> 0, run |-> 0]

NoCheckpoints == [i \in 1..Len(Backbones) |-> 0]

NoModel == [metadata |-> NoResultsFile, weights |-> 0]

\* The backbones whose train_one returned, and the accuracy each returned.
TrainOutcomes == [trained : SUBSET (1..Len(Backbones)), acc : [1..Len(Backbones) -> ValAccs]]

\* results.sort(key=val_acc, reverse=True) is stable: of the entries with the
\* highest accuracy, the backbone trained first comes first.
BestIndex(o) == CHOOSE i \in o.trained : \A j \in o.trained : o.acc[j] < o.acc[i] \/ (o.acc[j] = o.acc[i] /\ i <= j)

\* train_one saves best_<backbone>.pth at each strict improvement over 0.0.
SavedCheckpoints(ckpts, run, o) == [i \in 1..Len(Backbones) |-> IF i \in o.trained /\ o.acc[i] > 0 THEN run ELSE ckpts[i]]

train_all(results, ckpts, run, o) ==
    LET saved == SavedCheckpoints(ckpts, run, o)
    IN  IF o.trained = {}
        THEN [raised |-> TRUE, results |-> results, ckpts |-> saved]
        ELSE LET b == BestIndex(o)
             IN  [raised  |-> saved[b] = 0,
                  results |-> [model |-> Backbones[b], val_acc |-> o.acc[b], ckpt |-> b, run |-> run],
                  ckpts   |-> saved]

load_best(results, ckpts, cached, use_cache) ==
    IF use_cache /\ cached # NoModel
    THEN [raised |-> "", model |-> cached, cached |-> cached]
    ELSE IF results = NoResultsFile
    THEN [raised |-> "FileNotFoundError", model |-> NoModel, cached |-> cached]
    ELSE IF ckpts[results.ckpt] = 0
    THEN [raised |-> "Exception", model |-> NoModel, cached |-> cached]
    ELSE LET model == [metadata |-> results, weights |-> ckpts[results.ckpt]]
         IN  [raised |-> "", model |-> model, cached |-> IF use_cache THEN model ELSE cached]

NoLoad == [raised |-> "", model |-> NoModel, cached |-> NoModel]

NewProcess == [run |-> 0, results |-> NoResultsFile, ckpts |-> NoCheckpoints, cached |-> NoModel, op |-> "start", completed |-> FALSE, use_cache |-> TRUE, out |-> NoLoad]


(***************************************************************************)
(* train_one's epoch loop.  The training data enter as the sequence of     *)
(* validation accuracies that evaluate reports, one per epoch; the file at *)
(* best_path is named by the run that saved it and the accuracy it had.    *)
(***************************************************************************)
MaxEpochs == 5

MaxPatience == 3

AccuracySeqs(max_epochs) == [1..max_epochs -> ValAccs]

\* best_<backbone>.pth before the run: absent, or left by an earlier run.
PriorCheckpoints == {[run |-> "none", acc |-> 0], [run |-> "earlier", acc |-> 1]}

epoch_counting_ties_as_improvement(st, acc) ==
    IF acc >= st.best_acc
    THEN [best_acc |-> acc, no_imp |-> 0, ckpt |-> [run |-> "this", acc |-> acc]]
    ELSE [st EXCEPT !.no_imp = st.no_imp + 1]

\* One epoch's evaluation: save on a strict improvement, else count it.
Epoch(st, acc) ==
    IF acc > st.best_acc
    THEN [best_acc |-> acc, no_imp |-> 0, ckpt |-> [run |-> "this", acc |-> acc]]
    ELSE [st EXCEPT !.no_imp = st.no_imp + 1]

RECURSIVE TrainingLoop(_, _, _, _, _)
TrainingLoop(accs, ep, st, max_epochs, patience) ==
    LET s == Epoch(st, accs[ep])
    IN  IF s.no_imp >= patience \/ ep = max_epochs
        THEN [st |-> s, ep |-> ep]
        ELSE TrainingLoop(accs, ep + 1, s, max_epochs, patience)

train_one(accs, max_epochs, patience, prior) ==
    LET r == TrainingLoop(accs, 1, [best_acc |-> 0, no_imp |-> 0, ckpt |-> prior], max_epochs, patience)
    IN  [val_acc |-> r.st.best_acc, ckpt |-> r.st.ckpt, epochs_trained |-> r.ep]

NoTraining == [val_acc |-> 0, ckpt |-> [run |-> "none", acc |-> 0], epochs_trained |-> 0]

TrainCall(accs, max_epochs, patience, prior) == [accs |-> accs, max_epochs |-> max_epochs, patience |-> patience, prior |-> prior, done |-> FALSE, out |-> NoTraining]

(***************************************************************************)
(* State.  One client calls an operation and takes its result:             *)
(*   pc        "idle", or "returned" when a call has ended;                *)
(*   op, args  the call made and its inputs;                               *)
(*   ret       how it ended: the exception raised ("none" for a normal     *)
(*             return), the results, and the scratch file it created       *)
(*             (temp_path, 0 when none was created);                       *)
(*   http      the status of the handler's response (0 outside handlers);  *)
(*   tmpfiles  the scratch files that exist;                               *)
(*   outfiles  the visualization files that exist;                         *)
(*   est       the last _estimate_room_type call and its value;            *)
(*   rec, prevRec  the last two recommend_furniture calls and their values;*)
(*   seg       a detect_rooms call followed by recommend_furniture on each *)
(*             room it returned;                                           *)
(*   opn       a detect_doors_windows call;                                *)
(*   calls     two analyze_floor_plan_bytes calls that run interleaved:    *)
(*             per call its position, its inputs and its local values;     *)
(*   disk      the files those two calls share: the scratch files by name  *)
(*             and who wrote the visualization last.                       *)
(***************************************************************************)
NoArgs ==
    [min_room_area |-> 0, file |-> MissingFile, image_bytes |-> EmptyBytes,
     output_path |-> "", filename |-> "", save_visualization |-> FALSE]

NoRet == [exc |-> "none", results |-> NoResults, wrote |-> FALSE, temp_path |-> 0]

Ret(r, temp_path) ==
    [exc |-> r.exc, results |-> r.results, wrote |-> r.wrote, temp_path |-> temp_path]

EstCall(area2, w, h) ==
    [area2 |-> area2, w |-> w, h |-> h,
     type |-> _estimate_room_type(area2, Max(w, h), Min(w, h))]

RecCall(room_type, area) ==
    [type |-> room_type, area |-> area, out |-> recommend_furniture(room_type, area)]

SegCall(min_room_area, contours) ==
    [min_room_area |-> min_room_area, contours |-> contours,
     done |-> FALSE, rooms |-> << >>, recommendations |-> << >>]

OpnCall(segments) ==
    [segments |-> segments, done |-> FALSE, doors |-> << >>, windows |-> << >>]

Procs == {1, 2}

BytesCall(image_bytes, output_path) ==
    [pc |-> "decode", image_bytes |-> image_bytes, output_path |-> output_path,
     temp_path |-> 0, scratch_write |-> "written", scratch_image |-> NoImage,
     exc |-> "none", results |-> NoResults]

NoCalls == [p \in Procs |-> BytesCall(GarbageBytes, "")]

NoDisk == [scratch |-> [t \in 1..MaxTmp |-> MissingFile], viz |-> 0]

InitService ==
    /\ pc = "idle"
    /\ op = "none"
    /\ args = NoArgs
    /\ ret = NoRet
    /\ http = 0
    /\ tmpfiles = {}
    /\ outfiles = {}
    /\ est = EstCall(0, 1, 1)
    /\ rec = RecCall("storage_or_hallway", 0)
    /\ prevRec = RecCall("storage_or_hallway", 0)

InitRest ==
    /\ scr = NoScraper
    /\ rl = NewScraper(2)
    /\ batch = BatchCall(1)
    /\ prd = PredictCall("", "empty", 1, "untrained", [i \in 1..Len(Labels) |-> i])
    /\ inf = NewProcess
    /\ trn = TrainCall(<<0>>, 1, 1, [run |-> "none", acc |-> 0])

InitAnalysis ==
    /\ InitService
    /\ seg = SegCall(DefaultMinRoomArea, << >>)
    /\ opn = OpnCall(<< >>)
    /\ calls = NoCalls
    /\ disk = NoDisk

Init ==
    /\ InitRest
    /\ InitService
    /\ seg = SegCall(DefaultMinRoomArea, << >>)
    /\ opn = OpnCall(<< >>)
    /\ calls = NoCalls
    /\ disk = NoDisk

(***************************************************************************)
(* analyzer.analyze_floor_plan(image_path, output_path) on an analyzer     *)
(* built with min_room_area.                                               *)
(***************************************************************************)
AnalyzeFloorPlan ==
    /\ pc = "idle"
    /\ \E m \in MinRoomAreas, f \in Files, o \in OutputPaths :
         LET r == analyze_floor_plan(m, f, o)
         IN /\ op' = "analyze_floor_plan"
            /\ args' = [NoArgs EXCEPT !.min_room_area = m, !.file = f, !.output_path = o]
            /\ ret' = Ret(r, 0)
            /\ outfiles' = IF r.wrote THEN outfiles \cup {o} ELSE outfiles
    /\ pc' = "returned"
    /\ http' = 0
    /\ UNCHANGED <<tmpfiles, est, rec, prevRec, seg, opn, calls, disk, scr, rl, batch, prd, inf, trn>>

(***************************************************************************)
(* The scratch file of a call: tempfile.NamedTemporaryFile picks a name    *)
(* that does not exist.                                                    *)
(***************************************************************************)
FreshTemp == CHOOSE t \in 1..MaxTmp : t \notin tmpfiles /\ \A u \in 1..(t - 1) : u \in tmpfiles

ScratchFile(scratch_write, scratch_image) ==
    IF scratch_write = "written" THEN ImageFile(scratch_image) ELSE UnreadableFile

(* the scratch file a call reads back: none when the bytes do not decode *)
ScratchOf(c) == IF c[1].kind = "image" THEN ScratchFile(c[3], c[4]) ELSE MissingFile

BytesEffect(r, output_path) ==
    /\ ret' = Ret(r, IF r.created THEN FreshTemp ELSE 0)
    /\ tmpfiles' = IF r.created /\ ~r.deleted THEN tmpfiles \cup {FreshTemp} ELSE tmpfiles
    /\ outfiles' = IF r.wrote THEN outfiles \cup {output_path} ELSE outfiles

(* the environment's choices that the call can observe *)
BytesChoices ==
    { <<b, ed, sw, si>> \in ImageBytes \X {"None", "cv2.error"}
                             \X {"written", "false", "raises"}
                             \X (Images \cup {NoImage}) :
        /\ (b.kind = "empty" \/ ed = "None")
        /\ (b.kind = "image" \/ sw = "written")
        /\ ((b.kind = "image" /\ sw = "written") \/ si = NoImage) }

(***************************************************************************)
(* analyze_floor_plan_bytes(image_bytes, output_path)                      *)
(***************************************************************************)
AnalyzeFloorPlanBytes ==
    /\ pc = "idle"
    /\ Cardinality(tmpfiles) < MaxTmp
    /\ \E c \in BytesChoices, o \in OutputPaths :
         LET r == analyze_floor_plan_bytes(c[1], o, c[2], c[3], c[4])
         IN /\ op' = "analyze_floor_plan_bytes"
            /\ args' = [NoArgs EXCEPT !.image_bytes = c[1], !.output_path = o,
                                      !.min_room_area = DefaultMinRoomArea,
                                      !.file = ScratchOf(c)]
            /\ BytesEffect(r, o)
    /\ pc' = "returned"
    /\ http' = 0
    /\ UNCHANGED <<est, rec, prevRec, seg, opn, calls, disk, scr, rl, batch, prd, inf, trn>>

(***************************************************************************)
(* POST /analyze-floor-plan.  The upload is read only after the filename   *)
(* has been accepted, so a rejected filename comes with one content.       *)
(***************************************************************************)
Uploads ==
    { <<fn, c>> \in Filenames \X BytesChoices :
        fn = "plan.jpg" \/ c = <<GarbageBytes, "None", "written", NoImage>> }

AppAnalyzeFloorPlan ==
    /\ pc = "idle"
    /\ Cardinality(tmpfiles) < MaxTmp
    /\ \E u \in Uploads, sv \in BOOLEAN :
         LET c == u[2]
             a == app_analyze_floor_plan(u[1], c[1], sv, c[2], c[3], c[4])
         IN /\ op' = "app_analyze_floor_plan"
            /\ args' = [NoArgs EXCEPT !.filename = u[1], !.image_bytes = c[1],
                                      !.save_visualization = sv,
                                      !.output_path = IF sv THEN "out.jpg" ELSE "",
                                      !.min_room_area = DefaultMinRoomArea,
                                      !.file = ScratchOf(c)]
            /\ http' = a.status
            /\ BytesEffect(a.analysis, "out.jpg")
    /\ pc' = "returned"
    /\ UNCHANGED <<est, rec, prevRec, seg, opn, calls, disk, scr, rl, batch, prd, inf, trn>>

(* the client takes the result *)
Return ==
    /\ pc = "returned"
    /\ pc' = "idle"
    /\ op' = "none"
    /\ args' = NoArgs
    /\ ret' = NoRet
    /\ http' = 0
    /\ UNCHANGED <<tmpfiles, outfiles, est, rec, prevRec, seg, opn, calls, disk, scr, rl, batch, prd, inf, trn>>

Next == AnalyzeFloorPlan \/ AnalyzeFloorPlanBytes \/ AppAnalyzeFloorPlan \/ Return

Spec == Init /\ [][Next]_vars

(***************************************************************************)
(* _estimate_room_type applied to the areas around its three band limits   *)
(* and to bounding boxes that can hold a contour of that area.             *)
(***************************************************************************)
ClassifyAreas2 ==
    { 2 * b + d : b \in {SmallRoomArea, MediumRoomArea, LargeRoomArea}, d \in (-Spread)..Spread }

Sides == { 100 * k : k \in 1..MaxSideUnits }

EstimateRoomType ==
    /\ \E a \in ClassifyAreas2, w \in Sides, h \in Sides :
         /\ a <= 2 * w * h
         /\ est' = EstCall(a, w, h)
    /\ UNCHANGED <<pc, op, args, ret, http, tmpfiles, outfiles, rec, prevRec, seg, opn, calls, disk, scr, rl, batch, prd, inf, trn>>

NextClassify == EstimateRoomType

SpecClassify == Init /\ [][NextClassify]_vars

(***************************************************************************)
(* recommend_furniture applied to a room of any type (the seven of         *)
(* _estimate_room_type and one that is none of them, as the                *)
(* /furniture-recommendations handler passes what the client sent) and an  *)
(* area around the two tier limits.                                        *)
(***************************************************************************)
RoomTypes ==
    {"living_room", "master_bedroom", "dining_room", "bedroom", "bathroom", "kitchen",
     "storage_or_hallway", "garage"}

RecommendAreas ==
    { b + d : b \in {SmallTierArea, MediumTierArea}, d \in (-Spread)..Spread } \cup {0}

RecommendFurniture ==
    /\ \E t \in RoomTypes, a \in RecommendAreas : rec' = RecCall(t, a)
    /\ prevRec' = rec
    /\ UNCHANGED <<pc, op, args, ret, http, tmpfiles, outfiles, est, seg, opn, calls, disk, scr, rl, batch, prd, inf, trn>>

NextRecommend == RecommendFurniture

SpecRecommend == Init /\ [][NextRecommend]_vars

(***************************************************************************)
(* detect_rooms followed by recommend_furniture on every room returned, as *)
(* the accuracy test and the Streamlit page do.  The contours have areas   *)
(* at the smallest threshold and around the band limits, in a tall and in  *)
(* a long bounding box.                                                    *)
(***************************************************************************)
MaxMinRoomArea == 20000

SegMinRoomAreas == {TestMinRoomArea, DefaultMinRoomArea, MaxMinRoomArea}

SegAreas2 ==
    {2 * TestMinRoomArea}
      \cup { 2 * b + d : b \in {SmallRoomArea, MediumRoomArea, LargeRoomArea},
                         d \in (-Spread)..Spread }

SegBoxes == { <<300, 400>>, <<700, 300>> }

SegContours == { [area2 |-> a, w |-> b[1], h |-> b[2]] : a \in SegAreas2, b \in SegBoxes }

InitSegment ==
    /\ InitRest
    /\ InitService
    /\ opn = OpnCall(<< >>)
    /\ calls = NoCalls
    /\ disk = NoDisk
    /\ \E m \in SegMinRoomAreas, cs \in SeqsUpTo(SegContours, MaxContours) :
         seg = SegCall(m, cs)

DetectAndRecommend ==
    /\ ~seg.done
    /\ LET rooms == detect_rooms(seg.contours, seg.min_room_area)
       IN seg' = [seg EXCEPT !.done = TRUE,
                             !.rooms = rooms,
                             !.recommendations =
                                 [k \in 1..Len(rooms) |->
                                      recommend_furniture(rooms[k].type,
                                                          rooms[k].area_pixels)]]
    /\ UNCHANGED <<pc, op, args, ret, http, tmpfiles, outfiles, est, rec, prevRec, opn, calls, disk, scr, rl, batch, prd, inf, trn>>

NextSegment == DetectAndRecommend

SpecSegment == InitSegment /\ [][NextSegment]_vars

(***************************************************************************)
(* detect_doors_windows on the segments cv2.HoughLinesP reports (none when *)
(* it returns None).  A segment is its extent (x2 - x1, y2 - y1); the      *)
(* lengths lie around the three limits 30, 60 and 100, along an axis and   *)
(* along a diagonal.                                                       *)
(***************************************************************************)
MaxSegments == 2

length2(segment) == segment[1] * segment[1] + segment[2] * segment[2]

Segments ==
    { <<l + d, 0>> : l \in {MinOpeningLength, DoorLength, MaxOpeningLength},
                     d \in (-Spread)..Spread }
      \cup { <<18, 24>>, <<36, 48>>, <<60, 80>>, <<30, 1>>, <<0, 45>> }

InitOpenings ==
    /\ InitRest
    /\ InitService
    /\ seg = SegCall(DefaultMinRoomArea, << >>)
    /\ calls = NoCalls
    /\ disk = NoDisk
    /\ \E ls \in SeqsUpTo(Segments, MaxSegments) : opn = OpnCall(ls)

DetectDoorsWindows ==
    /\ ~opn.done
    /\ LET openings == detect_doors_windows([k \in 1..Len(opn.segments) |->
                                                 length2(opn.segments[k])])
       IN opn' = [opn EXCEPT !.done = TRUE,
                             !.doors = openings.doors,
                             !.windows = openings.windows]
    /\ UNCHANGED <<pc, op, args, ret, http, tmpfiles, outfiles, est, rec, prevRec, seg, calls, disk, scr, rl, batch, prd, inf, trn>>

NextOpenings == DetectDoorsWindows

SpecOpenings == InitOpenings /\ [][NextOpenings]_vars

(***************************************************************************)
(* Two analyze_floor_plan_bytes calls running at once (two handler         *)
(* requests, two threads).  A call takes its steps in order: decode the    *)
(* bytes, create the scratch file, write the image to it, analyze it       *)
(* (first pass on the decoded image, analyze_floor_plan on the scratch     *)
(* path, recommendations), unlink the scratch file.  The steps of the two  *)
(* calls interleave in any order.  Everything a call holds is a local of   *)
(* its own frame; the two meet only in the file system.                    *)
(***************************************************************************)
ConcContours ==
    { << [area2 |-> 2 * MediumTierArea + 10001, w |-> 400, h |-> 200] >>,
      << [area2 |-> 2 * DefaultMinRoomArea, w |-> 90, h |-> 70] >> }

ConcImages == [contours : ConcContours, lines : {<<3600>>}, walls : {1}]

ConcBytes == {GarbageBytes} \cup { EncodedImage(cs) : cs \in ConcContours }

ConcOutputPaths == {"", "out.jpg"}

InitConcurrent ==
    /\ InitRest
    /\ InitService
    /\ seg = SegCall(DefaultMinRoomArea, << >>)
    /\ opn = OpnCall(<< >>)
    /\ disk = NoDisk
    /\ calls \in [Procs -> { BytesCall(b, o) : b \in ConcBytes, o \in ConcOutputPaths }]

ServiceUnchanged ==
    UNCHANGED <<pc, op, args, ret, http, tmpfiles, outfiles, est, rec, prevRec, seg, opn, scr, rl, batch, prd, inf, trn>>

(* np.frombuffer, cv2.imdecode and the None check *)
Decode(p) ==
    /\ calls[p].pc = "decode"
    /\ calls' = IF calls[p].image_bytes.kind # "image"
                THEN [calls EXCEPT ![p].pc = "done", ![p].exc = "ValueError"]
                ELSE [calls EXCEPT ![p].pc = "create"]
    /\ UNCHANGED disk
    /\ ServiceUnchanged

FixedScratchName(scratch) == {1}

(* tempfile.NamedTemporaryFile(suffix='.jpg', delete=False): a name that
   no file has, opened exclusively *)
NamedTemporaryFile(scratch) == { t \in DOMAIN scratch : scratch[t].kind = "missing" }

CreateScratch(p) ==
    /\ calls[p].pc = "create"
    /\ \E t \in NamedTemporaryFile(disk.scratch) :
         /\ calls' = [calls EXCEPT ![p].pc = "write", ![p].temp_path = t]
         /\ disk' = [disk EXCEPT !.scratch[t] = UnreadableFile]
    /\ ServiceUnchanged

(* cv2.imwrite(temp_path, image): writes the JPEG, returns False, or raises *)
WriteScratch(p) ==
    /\ calls[p].pc = "write"
    /\ \/ \E si \in ConcImages :
            /\ calls' = [calls EXCEPT ![p].pc = "analyze", ![p].scratch_image = si]
            /\ disk' = [disk EXCEPT !.scratch[calls[p].temp_path] = ImageFile(si)]
       \/ /\ calls' = [calls EXCEPT ![p].pc = "analyze", ![p].scratch_write = "false"]
          /\ UNCHANGED disk
       \/ /\ calls' = [calls EXCEPT ![p].pc = "done", ![p].scratch_write = "raises",
                                    ![p].exc = "cv2.error"]
          /\ UNCHANGED disk
    /\ ServiceUnchanged

(* the body of the try block, on the file the scratch path names now *)
Analyze(p) ==
    /\ calls[p].pc = "analyze"
    /\ LET r == ScratchAnalysis(calls[p].image_bytes.contours, calls[p].output_path,
                                disk.scratch[calls[p].temp_path])
       IN /\ calls' = [calls EXCEPT ![p].pc = "cleanup", ![p].exc = r.exc,
                                    ![p].results = r.results]
          /\ disk' = IF r.wrote THEN [disk EXCEPT !.viz = p] ELSE disk
    /\ ServiceUnchanged

(* finally: Path(temp_path).unlink(), any exception swallowed *)
Unlink(p) ==
    /\ calls[p].pc = "cleanup"
    /\ calls' = [calls EXCEPT ![p].pc = "done"]
    /\ disk' = [disk EXCEPT !.scratch[calls[p].temp_path] = MissingFile]
    /\ ServiceUnchanged

NextConcurrent ==
    \E p \in Procs :
        Decode(p) \/ CreateScratch(p) \/ WriteScratch(p) \/ Analyze(p) \/ Unlink(p)

SpecConcurrent == InitConcurrent /\ [][NextConcurrent]_vars


(***************************************************************************)
(* A scraper cache directory over time: searches with any arguments, with  *)
(* and without the cache, and the clock moving on half a day at a time.    *)
(***************************************************************************)
MaxClockHours == 48

MaxDraws == 3

InitCache ==
    /\ InitAnalysis
    /\ trn = TrainCall(<<0>>, 1, 1, [run |-> "none", acc |-> 0])
    /\ inf = NewProcess
    /\ prd = PredictCall("", "empty", 1, "untrained", [i \in 1..Len(Labels) |-> i])
    /\ batch = BatchCall(1)
    /\ rl = NewScraper(2)
    /\ scr = NoScraper

SearchFurniture ==
    /\ scr.draws < MaxDraws
    /\ \E a \in SearchArgs, use_cache \in BOOLEAN :
         LET out == search_furniture(scr.cache, scr.now, scr.draws + 1, a, use_cache)
         IN scr' = [scr EXCEPT !.cache = out.cache,
                               !.draws = IF out.generated THEN @ + 1 ELSE @,
                               !.call = [args |-> a, use_cache |-> use_cache,
                                         at |-> scr.now,
                                         entry |-> scr.cache[query(a)],
                                         result |-> out.result,
                                         generated |-> out.generated,
                                         waited |-> out.waited]]
    /\ UNCHANGED <<pc, op, args, ret, http, tmpfiles, outfiles, est, rec, prevRec, seg, opn, calls, disk, rl, batch, prd, inf, trn>>

HalfDayPasses ==
    /\ scr.now + 12 <= MaxClockHours
    /\ scr' = [scr EXCEPT !.now = @ + 12]
    /\ UNCHANGED <<pc, op, args, ret, http, tmpfiles, outfiles, est, rec, prevRec, seg, opn, calls, disk, rl, batch, prd, inf, trn>>

NextCache == SearchFurniture \/ HalfDayPasses

SpecCache == InitCache /\ [][NextCache]_vars


(***************************************************************************)
(* One scraper instance serving requests over time: searches that miss the *)
(* cache and get_product_details calls wait for the rate limit, searches   *)
(* that hit the cache return before it.                                    *)
(***************************************************************************)
MaxClockSeconds == 14

RateLimits == {1, 2}

Delays == {0, 1}

InitRateLimit ==
    /\ InitAnalysis
    /\ trn = TrainCall(<<0>>, 1, 1, [run |-> "none", acc |-> 0])
    /\ inf = NewProcess
    /\ prd = PredictCall("", "empty", 1, "untrained", [i \in 1..Len(Labels) |-> i])
    /\ batch = BatchCall(1)
    /\ scr = NoScraper
    /\ \E rate_limit \in RateLimits : rl = NewScraper(rate_limit)

Request(kind) ==
    \E delay \in Delays :
        LET w == _wait_for_rate_limit(rl.now, rl.last_request_time, rl.rate_limit, delay)
        IN /\ w.now <= MaxClockSeconds
           /\ rl' = [rl EXCEPT !.now = w.now,
                               !.last_request_time = w.last_request_time,
                               !.previous_request_time = rl.last_request_time,
                               !.requests = IF @ < 2 THEN @ + 1 ELSE @,
                               !.kind = kind]

SearchCacheMiss ==
    /\ Request("search")
    /\ UNCHANGED <<pc, op, args, ret, http, tmpfiles, outfiles, est, rec, prevRec, seg, opn, calls, disk, scr, batch, prd, inf, trn>>

GetProductDetails ==
    /\ Request("details")
    /\ UNCHANGED <<pc, op, args, ret, http, tmpfiles, outfiles, est, rec, prevRec, seg, opn, calls, disk, scr, batch, prd, inf, trn>>

SearchCacheHit ==
    /\ rl.kind # "hit"
    /\ rl' = [rl EXCEPT !.kind = "hit"]
    /\ UNCHANGED <<pc, op, args, ret, http, tmpfiles, outfiles, est, rec, prevRec, seg, opn, calls, disk, scr, batch, prd, inf, trn>>

SecondPasses ==
    /\ rl.now + 1 <= MaxClockSeconds
    /\ rl' = [rl EXCEPT !.now = @ + 1]
    /\ UNCHANGED <<pc, op, args, ret, http, tmpfiles, outfiles, est, rec, prevRec, seg, opn, calls, disk, scr, batch, prd, inf, trn>>

NextRateLimit == SearchCacheMiss \/ GetProductDetails \/ SearchCacheHit \/ SecondPasses

SpecRateLimit == InitRateLimit /\ [][NextRateLimit]_vars


(***************************************************************************)
(* search_alibaba_furniture for every max_results from 1 to beyond the     *)
(* five pages it may request.                                              *)
(***************************************************************************)
MaxResults == 125

InitBatch ==
    /\ InitAnalysis
    /\ trn = TrainCall(<<0>>, 1, 1, [run |-> "none", acc |-> 0])
    /\ inf = NewProcess
    /\ prd = PredictCall("", "empty", 1, "untrained", [i \in 1..Len(Labels) |-> i])
    /\ scr = NoScraper
    /\ rl = NewScraper(2)
    /\ \E max_results \in 1..MaxResults : batch = BatchCall(max_results)

SearchAlibabaFurniture ==
    /\ ~batch.done
    /\ batch' = [batch EXCEPT !.done = TRUE,
                              !.out = search_alibaba_furniture(batch.max_results)]
    /\ UNCHANGED <<pc, op, args, ret, http, tmpfiles, outfiles, est, rec, prevRec, seg, opn, calls, disk, scr, rl, prd, inf, trn>>

NextBatch == SearchAlibabaFurniture

SpecBatch == InitBatch /\ [][NextBatch]_vars


(***************************************************************************)
(* POST /predict for every kind of upload, topk and state of the model     *)
(* store.                                                                  *)
(***************************************************************************)
MaxTopK == 4

UploadImages == {"empty", "garbage", "small", "ok"}

ModelStores == {"untrained", "no_ckpt", "trained"}

InitPredict ==
    /\ InitAnalysis
    /\ trn = TrainCall(<<0>>, 1, 1, [run |-> "none", acc |-> 0])
    /\ inf = NewProcess
    /\ scr = NoScraper
    /\ rl = NewScraper(2)
    /\ batch = BatchCall(1)
    /\ \E fn \in Filenames, image \in UploadImages, topk \in 1..MaxTopK,
          model \in ModelStores, ranking \in Rankings :
         prd = PredictCall(fn, image, topk, model, ranking)

AppPredict ==
    /\ ~prd.done
    /\ prd' = [prd EXCEPT !.done = TRUE,
                          !.response = app_predict(prd.filename, prd.image, prd.topk,
                                                   prd.model, prd.ranking)]
    /\ UNCHANGED <<pc, op, args, ret, http, tmpfiles, outfiles, est, rec, prevRec, seg, opn, calls, disk, scr, rl, batch, inf, trn>>

NextPredict == AppPredict

SpecPredict == InitPredict /\ [][NextPredict]_vars


(***************************************************************************)
(* One server process: training runs and model loads in any order.         *)
(***************************************************************************)
InitInfer ==
    /\ InitAnalysis
    /\ trn = TrainCall(<<0>>, 1, 1, [run |-> "none", acc |-> 0])
    /\ scr = NoScraper
    /\ rl = NewScraper(2)
    /\ batch = BatchCall(1)
    /\ prd = PredictCall("", "empty", 1, "untrained", [i \in 1..Len(Labels) |-> i])
    /\ inf = NewProcess

TrainAll ==
    /\ inf.run < MaxRuns
    /\ \E o \in TrainOutcomes :
         LET t == train_all(inf.results, inf.ckpts, inf.run + 1, o)
         IN  inf' = [inf EXCEPT !.run = inf.run + 1,
                                !.results = t.results,
                                !.ckpts = t.ckpts,
                                !.op = "train_all",
                                !.completed = ~t.raised]
    /\ UNCHANGED <<pc, op, args, ret, http, tmpfiles, outfiles, est, rec, prevRec, seg, opn, calls, disk, scr, rl, batch, prd, trn>>

LoadBest ==
    /\ \E use_cache \in BOOLEAN :
         LET l == load_best(inf.results, inf.ckpts, inf.cached, use_cache)
         IN  inf' = [inf EXCEPT !.cached = l.cached,
                                !.op = "load_best",
                                !.use_cache = use_cache,
                                !.out = l]
    /\ UNCHANGED <<pc, op, args, ret, http, tmpfiles, outfiles, est, rec, prevRec, seg, opn, calls, disk, scr, rl, batch, prd, trn>>

NextInfer == TrainAll \/ LoadBest

SpecInfer == InitInfer /\ [][NextInfer]_vars


(***************************************************************************)
(* One call of train_one on each accuracy sequence.                        *)
(***************************************************************************)
InitTrain ==
    /\ InitAnalysis
    /\ scr = NoScraper
    /\ rl = NewScraper(2)
    /\ batch = BatchCall(1)
    /\ prd = PredictCall("", "empty", 1, "untrained", [i \in 1..Len(Labels) |-> i])
    /\ inf = NewProcess
    /\ \E max_epochs \in 1..MaxEpochs, patience \in 1..MaxPatience, prior \in PriorCheckpoints :
         \E accs \in AccuracySeqs(max_epochs) :
           trn = TrainCall(accs, max_epochs, patience, prior)

TrainOne ==
    /\ ~trn.done
    /\ trn' = [trn EXCEPT !.done = TRUE,
                          !.out = train_one(trn.accs, trn.max_epochs, trn.patience, trn.prior)]
    /\ UNCHANGED <<pc, op, args, ret, http, tmpfiles, outfiles, est, rec, prevRec, seg, opn, calls, disk, scr, rl, batch, prd, inf>>

NextTrain == TrainOne

SpecTrain == InitTrain /\ [][NextTrain]_vars

(***************************************************************************)
(* Properties.                                                             *)
(***************************************************************************)
Returned == pc = "returned"
ReturnedOk == pc = "returned" /\ ret.exc = "none"
AnalysisCall == op \in {"analyze_floor_plan", "analyze_floor_plan_bytes"}
ResultRooms == ret.results.rooms
AnalyzedContours == args.file.image.contours

(* C1: every room in the result of an analysis call (analyze_floor_plan by
   path, or analyze_floor_plan_bytes) carries a furniture_recommendations
   list. *)
C1_EveryRoomHasRecommendations ==
    (ReturnedOk /\ AnalysisCall) =>
        \A k \in 1..Len(ResultRooms) : ResultRooms[k].has_recommendations

(* C2: when a call of analyze_floor_plan_bytes that created a scratch file
   ends, normally or by an exception, that scratch file no longer exists. *)
C2_ScratchFileDeleted ==
    (Returned /\ ret.temp_path # 0) => ret.temp_path \notin tmpfiles

(* C3: when an output path is supplied and rendering or writing the
   visualization fails, the analysis of a readable image still returns its
   result instead of raising. *)
FailingOutputPaths == {"missing_dir/out.jpg", "out.xyz"}
C3_VisualizationFailureNotFatal ==
    (Returned /\ AnalysisCall /\ args.file.kind = "image"
              /\ args.output_path \in FailingOutputPaths)
        => /\ ret.exc = "none"
           /\ ret.results.total_rooms =
                  Len(detect_rooms(AnalyzedContours, args.min_room_area))

(* C4: an empty upload to the analyze-floor-plan handler ends in the
   invalid-input outcome (400), never the internal-failure outcome (500),
   and no analysis step runs. *)
C4_EmptyUploadIsInvalidInput ==
    (Returned /\ op = "app_analyze_floor_plan" /\ args.filename = "plan.jpg"
              /\ args.image_bytes.kind = "empty")
        => /\ http = 400
           /\ ret.temp_path = 0
           /\ ret.results = NoResults

(* C5: in every returned result, total_rooms is the number of rooms listed
   and total_area_pixels is the sum of area_pixels over exactly those
   rooms. *)
RECURSIVE SumOver(_, _)
SumOver(rooms, n) == IF n = 0 THEN 0 ELSE rooms[n].area_pixels + SumOver(rooms, n - 1)

C5_TotalsMatchRooms ==
    ReturnedOk =>
        /\ ret.results.total_rooms = Len(ResultRooms)
        /\ ret.results.total_area_pixels = SumOver(ResultRooms, Len(ResultRooms))

C5_Witness ==
    /\ ReturnedOk
    /\ Len(AnalyzedContours) = 2
    /\ Len(ResultRooms) = 2
    /\ ret.results.total_rooms = 2
    /\ ret.results.total_area_pixels = 2 * 65000

(* C6: every returned room has area_pixels >= min_room_area, for each
   configured min_room_area, and a region whose area is below the threshold
   is no room of the output. *)
C6_RoomsReachMinArea ==
    ReturnedOk =>
        /\ \A k \in 1..Len(ResultRooms) : ResultRooms[k].area_pixels >= args.min_room_area
        /\ \A i \in 1..Len(AnalyzedContours) :
             AnalyzedContours[i].area2 < 2 * args.min_room_area
                 => \A k \in 1..Len(ResultRooms) : ResultRooms[k].id # i - 1

C6_Witness ==
    /\ ReturnedOk
    /\ op = "analyze_floor_plan"
    /\ args.min_room_area = 5000
    /\ Len(AnalyzedContours) = 2
    /\ AnalyzedContours[1].area2 = 9999
    /\ AnalyzedContours[2].area2 = 10000
    /\ Len(ResultRooms) = 1
    /\ ResultRooms[1].id = 1
    /\ ResultRooms[1].area_pixels = 5000

(* C7: the room type is the first matching row of the decision table on
   (area, aspect_ratio) with strict comparisons; every input gets exactly
   one of the seven types; the areas 100000, 50000 and 20000 fall in the
   lower band. *)
DecisionTable(area2, num, den) ==
    << [cond |-> area2 > 2 * 100000 /\ num > 2 * den, type |-> "living_room"],
       [cond |-> area2 > 2 * 100000, type |-> "master_bedroom"],
       [cond |-> area2 > 2 * 50000 /\ 2 * num > 3 * den, type |-> "dining_room"],
       [cond |-> area2 > 2 * 50000, type |-> "bedroom"],
       [cond |-> area2 > 2 * 20000 /\ 5 * num < 6 * den, type |-> "bathroom"],
       [cond |-> area2 > 2 * 20000, type |-> "kitchen"],
       [cond |-> TRUE, type |-> "storage_or_hallway"] >>

FirstMatch(table) ==
    table[CHOOSE i \in 1..Len(table) :
              table[i].cond /\ \A j \in 1..(i - 1) : ~table[j].cond].type

C7_DecisionTable ==
    LET num == IF est.w >= est.h THEN est.w ELSE est.h
        den == IF est.w >= est.h THEN est.h ELSE est.w
    IN /\ est.type = FirstMatch(DecisionTable(est.area2, num, den))
       /\ est.area2 = 2 * 100000 => est.type \in {"dining_room", "bedroom"}
       /\ est.area2 = 2 * 50000 => est.type \in {"bathroom", "kitchen"}
       /\ est.area2 = 2 * 20000 => est.type = "storage_or_hallway"

C7_Witness ==
    /\ est.area2 = 2 * 100000
    /\ est.w = 600
    /\ est.h = 300
    /\ est.type = "dining_room"

(* C8: recommend_furniture returns, of the catalog entry of the room type,
   exactly the essential items when area < 30000, exactly the essential and
   recommended items when 30000 <= area < 60000, and the whole entry when
   area >= 60000, always in catalog order. *)
CatalogKeys ==
    {"bedroom", "master_bedroom", "living_room", "dining_room", "kitchen", "bathroom"}

KeptIndices(base, priorities) == { i \in 1..Len(base) : base[i].priority \in priorities }

IsOrderedSelection(out, base, priorities) ==
    LET kept == KeptIndices(base, priorities)
    IN /\ Len(out) = Cardinality(kept)
       /\ \A k \in 1..Len(out) :
            out[k] = base[CHOOSE i \in kept : Cardinality({ j \in kept : j < i }) = k - 1]

C8_TierFilter ==
    rec.type \in CatalogKeys =>
        LET base == recommendations[rec.type]
        IN /\ rec.area < 30000 => IsOrderedSelection(rec.out, base, {"essential"})
           /\ (30000 <= rec.area /\ rec.area < 60000)
                => IsOrderedSelection(rec.out, base, {"essential", "recommended"})
           /\ rec.area >= 60000 => rec.out = base

C8_Witness ==
    /\ rec.type = "bedroom"
    /\ rec.area = 30000
    /\ rec.out = << [item |-> "bed", priority |-> "essential"],
                    [item |-> "nightstand", priority |-> "recommended"],
                    [item |-> "wardrobe", priority |-> "essential"] >>

(* C9: for a fixed room type the recommendations grow with the area tier:
   the set for area >= 60000 contains the set for 30000 <= area < 60000,
   which contains the set for area < 30000. *)
Tier(area) == IF area < 30000 THEN 1 ELSE IF area < 60000 THEN 2 ELSE 3

Range(seq) == { seq[i] : i \in 1..Len(seq) }

C9_MonotonicInArea ==
    (prevRec.type = rec.type /\ Tier(prevRec.area) <= Tier(rec.area))
        => Range(prevRec.out) \subseteq Range(rec.out)

C9_Witness ==
    /\ prevRec.type = "bathroom"
    /\ rec.type = "bathroom"
    /\ prevRec.area = 29999
    /\ rec.area = 30000
    /\ Range(prevRec.out) # Range(rec.out)
    /\ Range(prevRec.out) \subseteq Range(rec.out)

(* C10: for a room type that is no key of the catalog (storage_or_hallway
   included) and any area, recommend_furniture returns the one-item generic
   fallback list (general_storage, recommended) passed through the area-tier
   filter: nothing below 30000, the item from 30000 on. *)
C10_UnknownTypeFallback ==
    rec.type \notin CatalogKeys =>
        rec.out = IF rec.area < 30000
                  THEN << >>
                  ELSE << [item |-> "general_storage", priority |-> "recommended"] >>

C10_Witness ==
    /\ rec.type = "storage_or_hallway"
    /\ rec.area = 30000
    /\ Len(rec.out) = 1
    /\ prevRec.type = "garage"
    /\ prevRec.area = 29999
    /\ prevRec.out = << >>

(* C11: every room returned by detect_rooms, whatever min_room_area the
   analyzer was built with (the test's 1000 included), gets a non-empty
   list from recommend_furniture. *)
C11_DetectedRoomsGetFurniture ==
    seg.done =>
        \A k \in 1..Len(seg.rooms) : Len(seg.recommendations[k]) > 0

Count(s, v) == Cardinality({ k \in 1..Len(s) : s[k] = v })
SegmentLengths2 == [k \in 1..Len(opn.segments) |-> length2(opn.segments[k])]

(* C12: every entry of doors and of windows has a length strictly between
   30 and 100, and a segment whose length is at most 30 or at least 100 is
   in neither list. *)
C12_OpeningLengthBounds ==
    opn.done =>
        /\ \A k \in 1..Len(opn.doors) : 900 < opn.doors[k] /\ opn.doors[k] < 10000
        /\ \A k \in 1..Len(opn.windows) : 900 < opn.windows[k] /\ opn.windows[k] < 10000
        /\ \A k \in 1..Len(opn.segments) :
             LET l2 == length2(opn.segments[k])
             IN (l2 <= 900 \/ l2 >= 10000)
                    => Count(opn.doors, l2) = 0 /\ Count(opn.windows, l2) = 0

C12_Witness ==
    /\ opn.done
    /\ \E k \in 1..Len(opn.segments) : length2(opn.segments[k]) \in {900, 10000}
    /\ Len(opn.doors) + Len(opn.windows) > 0

(* C13: the kept segments are split by length alone: one with
   30 < length < 60 is in windows and not in doors, one with
   60 <= length < 100 is in doors and not in windows, and each kept
   segment is in exactly one list exactly once. *)
C13_OpeningPartition ==
    opn.done =>
        \A k \in 1..Len(opn.segments) :
            LET l2 == length2(opn.segments[k])
                n == Count(SegmentLengths2, l2)
            IN /\ (900 < l2 /\ l2 < 3600)
                     => Count(opn.windows, l2) = n /\ Count(opn.doors, l2) = 0
               /\ (3600 <= l2 /\ l2 < 10000)
                     => Count(opn.doors, l2) = n /\ Count(opn.windows, l2) = 0

C13_Witness ==
    /\ opn.done
    /\ \E k \in 1..Len(opn.segments) : length2(opn.segments[k]) = 3600
    /\ Len(opn.windows) > 0

(* C14: for every room detect_rooms returns, aspect_ratio is
   max(w, h) / min(w, h) of its bounding box: the divisor is not zero and
   the ratio is at least 1. *)
C14_AspectRatioAtLeastOne ==
    seg.done =>
        \A k \in 1..Len(seg.rooms) :
            LET r == seg.rooms[k]
            IN /\ r.aspect_ratio.den > 0
               /\ r.aspect_ratio.num >= r.aspect_ratio.den
               /\ IF r.width >= r.height
                  THEN r.aspect_ratio.num * r.height = r.aspect_ratio.den * r.width
                  ELSE r.aspect_ratio.num * r.width = r.aspect_ratio.den * r.height

C14_Witness ==
    /\ seg.done
    /\ \E k \in 1..Len(seg.rooms) : seg.rooms[k].width < seg.rooms[k].height

(* C15: the analysis of an all-white image with an analyzer of the default
   min_room_area 5000 returns total_rooms = 0 and empty doors and windows:
   the background is not reported as a room. *)
C15_BlankImageHasNoRooms ==
    (ReturnedOk /\ AnalysisCall /\ args.file.kind = "image"
                /\ args.file.image \in BlankImages /\ args.min_room_area = 5000)
        => /\ ret.results.total_rooms = 0
           /\ ret.results.doors = << >>
           /\ ret.results.windows = << >>

(* the result the same call gives when no visualization path is passed *)
ResultsWithoutVisualization ==
    IF op = "analyze_floor_plan"
    THEN analyze_floor_plan(args.min_room_area, args.file, "").results
    ELSE ScratchAnalysis(args.image_bytes.contours, "", args.file).results

(* C16: the result an analysis call returns when a visualization path is
   passed (total_rooms, total_area_pixels, rooms, doors, windows,
   wall_count) is the one it returns without a path, and when the write
   succeeds the file exists at the requested path. *)
C16_VisualizationChangesNothing ==
    (ReturnedOk /\ AnalysisCall /\ args.file.kind = "image" /\ args.output_path # "")
        => /\ ret.results = ResultsWithoutVisualization
           /\ ret.wrote => args.output_path \in outfiles
           /\ args.output_path = "out.jpg" => ret.wrote

C16_Witness ==
    /\ ReturnedOk /\ AnalysisCall /\ args.file.kind = "image"
    /\ args.output_path = "out.jpg"
    /\ "out.jpg" \in outfiles
    /\ ret.results.total_rooms > 0
    /\ Len(ret.results.doors) > 0

(* C18: loader failures are typed and come before any processing:
   analyze_floor_plan_bytes on bytes that do not decode to an image raises
   ValueError, with no scratch file created and no analysis step run;
   load_image raises FileNotFoundError for a path that does not exist and
   ValueError for a file that exists but is not a readable image. *)
C18_LoaderFailuresAreTyped ==
    Returned =>
        /\ (op = "analyze_floor_plan_bytes" /\ args.image_bytes.kind # "image")
               => /\ ret.exc = "ValueError"
                  /\ ret.temp_path = 0
                  /\ ret.results = NoResults /\ ~ret.wrote
        /\ (op = "analyze_floor_plan" /\ args.file.kind = "missing")
               => ret.exc = "FileNotFoundError" /\ ret.results = NoResults /\ ~ret.wrote
        /\ (op = "analyze_floor_plan" /\ args.file.kind = "unreadable")
               => ret.exc = "ValueError" /\ ret.results = NoResults /\ ~ret.wrote

NoRegionPasses ==
    \A k \in 1..Len(AnalyzedContours) :
        AnalyzedContours[k].area2 < 2 * args.min_room_area

(* C19: an analysis of a readable image never raises because the image is
   degenerate: when no region reaches the area threshold it returns
   total_rooms = 0, total_area_pixels = 0 and no rooms, and when no line is
   detected it returns empty doors and windows. *)
C19_DegenerateInputIsNoError ==
    (Returned /\ AnalysisCall /\ args.file.kind = "image")
        => /\ NoRegionPasses
                => /\ ret.exc = "none"
                   /\ ret.results.total_rooms = 0
                   /\ ret.results.total_area_pixels = 0
                   /\ ret.results.rooms = << >>
           /\ args.file.image.lines = << >>
                => /\ ret.exc = "none"
                   /\ ret.results.doors = << >>
                   /\ ret.results.windows = << >>

HoldsScratch(p) == calls[p].pc \in {"write", "analyze", "cleanup"}

(* what the call returns when it runs alone, given what its own
   cv2.imwrite did *)
Alone(p) ==
    analyze_floor_plan_bytes(calls[p].image_bytes, calls[p].output_path, "None",
                             calls[p].scratch_write, calls[p].scratch_image)

(* C20: in any interleaving of two analyze_floor_plan_bytes calls, the two
   never hold the same scratch file, a call's scratch file exists until the
   call itself unlinks it (the other call never deletes it), and a call
   that has ended returned what it returns when run alone. *)
C20_ConcurrentCallsAreIsolated ==
    \A p \in Procs :
        /\ \A q \in Procs \ {p} :
               (HoldsScratch(p) /\ HoldsScratch(q))
                   => calls[p].temp_path # calls[q].temp_path
        /\ HoldsScratch(p) => disk.scratch[calls[p].temp_path].kind # "missing"
        /\ calls[p].pc = "done"
               => /\ calls[p].exc = Alone(p).exc
                  /\ calls[p].results = Alone(p).results

C20_Witness ==
    /\ calls[1].pc = "done" /\ calls[1].exc = "none" /\ calls[1].results.total_rooms > 0
    /\ calls[1].image_bytes # calls[2].image_bytes
    /\ calls[2].pc = "analyze" /\ calls[2].image_bytes.kind = "image"
    /\ calls[2].temp_path # calls[1].temp_path

(* C21: within one detect_rooms result no two rooms share an id, and the
   ids increase strictly along the rooms list; they are positions in the
   contour sequence, so a skipped contour leaves a gap. *)
C21_RoomIdsIncrease ==
    seg.done =>
        /\ \A j, k \in 1..Len(seg.rooms) : j < k => seg.rooms[j].id < seg.rooms[k].id
        /\ \A k \in 1..Len(seg.rooms) :
             /\ seg.rooms[k].id \in 0..(Len(seg.contours) - 1)
             /\ seg.rooms[k].contour = seg.contours[seg.rooms[k].id + 1]

C21_Witness ==
    /\ seg.done
    /\ Len(seg.rooms) = 2
    /\ seg.rooms[1].contour = seg.rooms[2].contour

(* C26: every room in the result of analyze_floor_plan_bytes carries the
   recommendations of that same room: furniture_recommendations equals
   recommend_furniture applied to the result room's own type and
   area_pixels. *)
C26_RecommendationsOfTheSameRoom ==
    (ReturnedOk /\ op = "analyze_floor_plan_bytes") =>
        \A k \in 1..Len(ResultRooms) :
            /\ ResultRooms[k].has_recommendations
            /\ ResultRooms[k].furniture_recommendations =
                   recommend_furniture(ResultRooms[k].type, ResultRooms[k].area_pixels)

(* C30: the type of every returned room is the decision table applied to
   the room's integer area_pixels and its aspect_ratio, also when the
   contour area lies half a pixel above 20000, 50000 or 100000. *)
C30_TypeAgreesWithAreaPixels ==
    seg.done =>
        \A k \in 1..Len(seg.rooms) :
            LET r == seg.rooms[k]
            IN r.type = FirstMatch(DecisionTable(2 * r.area_pixels,
                                                 r.aspect_ratio.num, r.aspect_ratio.den))

(* C22: a search_furniture call with use_cache=True, made while the cache
   entry that an identical call (same keyword, category, page, page_size
   and price bounds) stored is at most 24 hours old, returns exactly that
   stored result, generates no new data and does not apply the rate-limit
   wait. *)
C22_CachedResultReused ==
    (/\ scr.call.use_cache
     /\ scr.call.entry.exists
     /\ scr.call.entry.by = scr.call.args
     /\ scr.call.at - scr.call.entry.mtime <= 24)
        => /\ scr.call.result = scr.call.entry.data
           /\ ~scr.call.generated
           /\ ~scr.call.waited
           /\ scr.cache[query(scr.call.args)] = scr.call.entry

C22_Witness ==
    /\ scr.call.use_cache
    /\ scr.call.entry.exists
    /\ scr.call.entry.by = scr.call.args
    /\ scr.call.at - scr.call.entry.mtime = 24
    /\ scr.call.result = scr.call.entry.data
    /\ scr.call.result.draw = 2

(* C23: on one scraper instance, two consecutive requests that are not
   served from the cache (search_furniture misses, get_product_details
   calls) are at least rate_limit_seconds apart: successive values of
   last_request_time differ by at least rate_limit_seconds. *)
C23_RequestsSpacedByRateLimit ==
    rl.requests >= 2 =>
        rl.last_request_time - rl.previous_request_time >= rl.rate_limit

C23_Witness ==
    /\ rl.requests >= 2
    /\ rl.rate_limit = 2
    /\ rl.last_request_time - rl.previous_request_time = 2
    /\ rl.kind = "details"

(* C24: for every max_results >= 1, search_alibaba_furniture returns
   success = True and min(max_results, 100) products, never more than
   max_results, after requesting at most 5 pages of 20 products. *)
C24_BatchSizeBounded ==
    batch.done =>
        /\ batch.out.success
        /\ Len(batch.out.products) <= batch.max_results
        /\ Len(batch.out.products) =
               (IF batch.max_results < 100 THEN batch.max_results ELSE 100)
        /\ batch.out.requested <= 5
        /\ batch.out.total_found = 20 * batch.out.requested

C24_Witness ==
    /\ batch.done
    /\ batch.max_results = 101
    /\ Len(batch.out.products) = 100
    /\ batch.out.requested = 5

(* C25: with a trained model available, a non-empty image and an allowed
   extension, the /predict handler answers with ok = true, the top-k
   predictions of predict_bytes and the model information, and not with the
   500 outcome. *)
C25_PredictSucceeds ==
    (prd.done /\ prd.model = "trained" /\ prd.image = "ok" /\ prd.filename = "plan.jpg")
        => /\ prd.response.status = 200
           /\ prd.response.ok
           /\ prd.response.predictions =
                  predict_bytes(prd.image, prd.topk, prd.model, prd.ranking).predictions
           /\ prd.response.model = BestModel.model

\* C27: after a training run has completed, a load_best(use_cache=True)
\* returns the first entry of the current results file and the weights of the
\* checkpoint that entry names.
C27_LoadBestReturnsCurrentBest ==
    (inf.op = "load_best" /\ inf.use_cache /\ inf.completed)
        => /\ inf.out.raised = ""
           /\ inf.out.model.metadata = inf.results
           /\ inf.out.model.weights = inf.ckpts[inf.results.ckpt]

\* Epoch j brought no strict improvement of the best accuracy so far (0.0
\* before the first epoch).
NoImprovement(accs, j) == accs[j] = 0 \/ \E i \in 1..(j - 1) : accs[i] >= accs[j]

\* At epoch e the last `patience` epochs all brought no improvement.
PatienceExhausted(accs, e, patience) == e >= patience /\ \A j \in (e - patience + 1)..e : NoImprovement(accs, j)

\* C28: train_one runs at most max_epochs epochs, stops before max_epochs
\* exactly at the first epoch at which patience consecutive epochs brought no
\* strict improvement, reports the number of epochs run as epochs_trained and
\* the highest accuracy observed in them as val_acc.
C28_EarlyStopping ==
    trn.done
        => /\ trn.out.epochs_trained \in 1..trn.max_epochs
           /\ trn.out.epochs_trained < trn.max_epochs
                  => PatienceExhausted(trn.accs, trn.out.epochs_trained, trn.patience)
           /\ \A e \in 1..(trn.out.epochs_trained - 1) : ~PatienceExhausted(trn.accs, e, trn.patience)
           /\ \E i \in 1..trn.out.epochs_trained : trn.accs[i] = trn.out.val_acc
           /\ \A i \in 1..trn.out.epochs_trained : trn.accs[i] <= trn.out.val_acc

C28_Witness ==
    /\ trn.done
    /\ trn.out.epochs_trained < trn.max_epochs
    /\ trn.out.epochs_trained > trn.patience
    /\ trn.out.val_acc > 0

\* C29: the checkpoint at the returned path was saved during the same run and
\* has the returned validation accuracy.
C29_CheckpointOfThisRun ==
    trn.done => (trn.out.ckpt.run = "this" /\ trn.out.ckpt.acc = trn.out.val_acc)

====
